---- MODULE Spec2Model ----
(***************************************************************************)
(* A model of the H->ZZ*->4l demonstration notebook                        *)
(* (seminar_HiggsDemo.ipynb): the ServiceX query, the lepton filter, the   *)
(* coffea processor, the gather of the four datasources and the writing    *)
(* of histograms.root.                                                     *)
(*                                                                         *)
(* Numbers.  The notebook computes in floating point.  Here every real     *)
(* number is an exact rational <<n, d>> (d > 0, lowest terms), so 1.1 is   *)
(* 11/10, 0.9 is 9/10, 1.01 is 101/100 and 0.99 is 99/100.  Rounding,      *)
(* overflow to inf and NaN are not modelled.                               *)
(***************************************************************************)
EXTENDS Integers, Sequences, FiniteSets, Bags, TLC

VARIABLES
    u_in,           \* unit runs: the array of events a function is applied to
    u_out,          \* unit runs: what the function returned
    u_loc,          \* unit runs: the local variables of lepton_filter
    u_done          \* unit runs: whether the function has been applied

unit_vars == <<u_in, u_out, u_loc, u_done>>

----------------------------------------------------------------------------
(* Exact rational arithmetic standing for the float arithmetic of the code *)

Abs(x) == IF x < 0 THEN -x ELSE x

RECURSIVE GCD(_, _)
GCD(a, b) == IF b = 0 THEN a ELSE GCD(b, a % b)

Norm(n, d) ==
    LET g == GCD(Abs(n), Abs(d))
        s == IF d < 0 THEN -1 ELSE 1
    IN  <<(s * n) \div g, (s * d) \div g>>

R(n) == <<n, 1>>
Frac(n, d) == Norm(n, d)
RMul(a, b) == Norm(a[1] * b[1], a[2] * b[2])
RDiv(a, b) == Norm(a[1] * b[2], a[2] * b[1])
RAdd(a, b) == Norm(a[1] * b[2] + b[1] * a[2], a[2] * b[2])
RLt(a, b) == a[1] * b[2] < b[1] * a[2]
RLe(a, b) == a[1] * b[2] <= b[1] * a[2]
RFloor(a) == a[1] \div a[2]

\* the sum of a sequence of rationals
RECURSIVE RSumRange(_, _, _)
RSumRange(s, lo, hi) ==
    IF lo > hi THEN R(0)
    ELSE IF lo = hi THEN s[lo]
    ELSE LET mid == (lo + hi) \div 2
         IN  RAdd(RSumRange(s, lo, mid), RSumRange(s, mid + 1, hi))

RSum(s) == RSumRange(s, 1, Len(s))

RECURSIVE SeqSum(_)
SeqSum(s) == IF s = <<>> THEN 0 ELSE Head(s) + SeqSum(Tail(s))

----------------------------------------------------------------------------
(* awkward-array reductions used by lepton_filter                          *)

\* ak.sum(x, axis=1): one sum per event of a jagged array
ak_sum_axis1(x) == [i \in 1..Len(x) |-> SeqSum(x[i])]

\* arr == v, broadcast over a flat array
ak_eq(arr, v) == [i \in 1..Len(arr) |-> arr[i] = v]

\* ak.any([a, b, ...], axis=0): element-wise OR of equally long arrays
ak_any_axis0(arrs) ==
    [i \in 1..Len(arrs[1]) |-> \E k \in 1..Len(arrs) : arrs[k][i]]

\* ak.all([a, b, ...], axis=0): element-wise AND of equally long arrays
ak_all_axis0(arrs) ==
    [i \in 1..Len(arrs[1]) |-> \A k \in 1..Len(arrs) : arrs[k][i]]

\* mutant: the two cuts combined with ak.any instead of ak.all
lepton_filter_any(lep_charge, lep_type) ==
    LET sum_lep_charge == ak_sum_axis1(lep_charge)
        sum_lep_type == ak_sum_axis1(lep_type)
        good_lep_type == ak_any_axis0(<<ak_eq(sum_lep_type, 44),
                                        ak_eq(sum_lep_type, 48),
                                        ak_eq(sum_lep_type, 52)>>)
    IN  [sum_lep_charge |-> sum_lep_charge,
         sum_lep_type |-> sum_lep_type,
         good_lep_type |-> good_lep_type,
         result |-> ak_any_axis0(<<ak_eq(sum_lep_charge, 0), good_lep_type>>)]

\* mutant: type sum 50 (1 electron + 3 muons) accepted in place of 52
lepton_filter_50(lep_charge, lep_type) ==
    LET sum_lep_charge == ak_sum_axis1(lep_charge)
        sum_lep_type == ak_sum_axis1(lep_type)
        good_lep_type == ak_any_axis0(<<ak_eq(sum_lep_type, 44),
                                        ak_eq(sum_lep_type, 48),
                                        ak_eq(sum_lep_type, 50)>>)
    IN  [sum_lep_charge |-> sum_lep_charge,
         sum_lep_type |-> sum_lep_type,
         good_lep_type |-> good_lep_type,
         result |-> ak_all_axis0(<<ak_eq(sum_lep_charge, 0), good_lep_type>>)]

\* mutant: the charge cut compares the charge sum with 2
lepton_filter_charge2(lep_charge, lep_type) ==
    LET sum_lep_charge == ak_sum_axis1(lep_charge)
        sum_lep_type == ak_sum_axis1(lep_type)
        good_lep_type == ak_any_axis0(<<ak_eq(sum_lep_type, 44),
                                        ak_eq(sum_lep_type, 48),
                                        ak_eq(sum_lep_type, 52)>>)
    IN  [sum_lep_charge |-> sum_lep_charge,
         sum_lep_type |-> sum_lep_type,
         good_lep_type |-> good_lep_type,
         result |-> ak_all_axis0(<<ak_eq(sum_lep_charge, 2), good_lep_type>>)]

\* lepton_filter with its local variables; "result" is what it returns
lepton_filter_locals(lep_charge, lep_type) ==
    LET sum_lep_charge == ak_sum_axis1(lep_charge)
        sum_lep_type == ak_sum_axis1(lep_type)
        good_lep_type == ak_any_axis0(<<ak_eq(sum_lep_type, 44),
                                        ak_eq(sum_lep_type, 48),
                                        ak_eq(sum_lep_type, 52)>>)
    IN  [sum_lep_charge |-> sum_lep_charge,
         sum_lep_type |-> sum_lep_type,
         good_lep_type |-> good_lep_type,
         result |-> ak_all_axis0(<<ak_eq(sum_lep_charge, 0), good_lep_type>>)]

lepton_filter(lep_charge, lep_type) ==
    lepton_filter_locals(lep_charge, lep_type).result

----------------------------------------------------------------------------
(* Events.  A raw event is a row of the "mini" tree; "mass" stands for the *)
(* invariant mass (MeV) of the sum of the four-vectors of its first four   *)
(* leptons, and "id" names the event (a history field, never read by a     *)
(* cut or a weight).                                                       *)

RawEvent(id, charge, type, mass, mcWeight, ele, muon, trig, pileup) ==
    [id |-> id, lep_n |-> Len(charge), lep_charge |-> charge,
     lep_type |-> type, mass |-> mass, mcWeight |-> mcWeight,
     scaleFactor_ELE |-> ele, scaleFactor_MUON |-> muon,
     scaleFactor_LepTRIGGER |-> trig, scaleFactor_PILEUP |-> pileup]

\* column x of an array of events
Column(events, x) == [i \in 1..Len(events) |-> events[i][x]]

\* events[mask]
Masked(events, mask) ==
    LET F[i \in 0..Len(events)] ==
            IF i = 0 THEN <<>>
            ELSE IF mask[i] THEN Append(F[i - 1], events[i]) ELSE F[i - 1]
    IN  F[Len(events)]

----------------------------------------------------------------------------
(* The ServiceX query                                                      *)

\* mutant: the pile-up factor left out of the up variation
SelectColumns_noPileup(e) ==
    [id |-> e.id,
     lep_charge |-> e.lep_charge,
     lep_typeid |-> e.lep_type,
     mass |-> e.mass,
     mcWeight |-> e.mcWeight,
     scaleFactor |->
        RMul(RMul(RMul(e.scaleFactor_ELE, e.scaleFactor_MUON),
                  e.scaleFactor_LepTRIGGER), e.scaleFactor_PILEUP),
     scaleFactorUP |->
        RMul(RMul(RMul(e.scaleFactor_ELE, e.scaleFactor_MUON),
                  e.scaleFactor_LepTRIGGER), Frac(11, 10)),
     scaleFactorDOWN |->
        RMul(RMul(RMul(RMul(e.scaleFactor_ELE, e.scaleFactor_MUON),
                       e.scaleFactor_LepTRIGGER), e.scaleFactor_PILEUP),
             Frac(9, 10))]

\* the columns Select builds for one event that passed Where
SelectColumns(e) ==
    [id |-> e.id,
     lep_charge |-> e.lep_charge,
     lep_typeid |-> e.lep_type,
     mass |-> e.mass,
     mcWeight |-> e.mcWeight,
     scaleFactor |->
        RMul(RMul(RMul(e.scaleFactor_ELE, e.scaleFactor_MUON),
                  e.scaleFactor_LepTRIGGER), e.scaleFactor_PILEUP),
     scaleFactorUP |->
        RMul(RMul(RMul(RMul(e.scaleFactor_ELE, e.scaleFactor_MUON),
                       e.scaleFactor_LepTRIGGER), e.scaleFactor_PILEUP),
             Frac(11, 10)),
     scaleFactorDOWN |->
        RMul(RMul(RMul(RMul(e.scaleFactor_ELE, e.scaleFactor_MUON),
                       e.scaleFactor_LepTRIGGER), e.scaleFactor_PILEUP),
             Frac(9, 10))]

\* mutant: Where keeps events with at least four leptons
get_lepton_query_ge4(source) ==
    LET F[i \in 0..Len(source)] ==
            IF i = 0 THEN <<>>
            ELSE IF source[i].lep_n >= 4
                 THEN Append(F[i - 1], SelectColumns(source[i]))
                 ELSE F[i - 1]
    IN  F[Len(source)]

\* source.Where(lambda e: e.lep_n == 4).Select(lambda e: {...})
get_lepton_query(source) ==
    LET F[i \in 0..Len(source)] ==
            IF i = 0 THEN <<>>
            ELSE IF source[i].lep_n = 4
                 THEN Append(F[i - 1], SelectColumns(source[i]))
                 ELSE F[i - 1]
    IN  F[Len(source)]

----------------------------------------------------------------------------
(* Unit runs: one function applied to one bounded array of events          *)

MaxLeptons == 4     \* leptons per event in the arrays given to lepton_filter
MaxPad == 1         \* events before and after the freely chosen event

\* Python's None
None == [none |-> TRUE]

Leptons == {-1, 1} \X {11, 13}
LeptonLists == UNION {[1..n -> Leptons] : n \in 0..MaxLeptons}

\* an event with the given <<charge, type>> leptons and unit weights
LeptonEvent(ls) ==
    RawEvent(0, [i \in 1..Len(ls) |-> ls[i][1]], [i \in 1..Len(ls) |-> ls[i][2]],
             125000, R(1), R(1), R(1), R(1), R(1))

\* accepted (2e2mu, charges cancel); same types with charge sum 2; 3e1mu
PadEvents ==
    { LeptonEvent(<<<<1, 11>>, <<-1, 11>>, <<1, 13>>, <<-1, 13>>>>),
      LeptonEvent(<<<<1, 11>>, <<1, 11>>, <<1, 13>>, <<-1, 13>>>>),
      LeptonEvent(<<<<1, 11>>, <<-1, 11>>, <<1, 11>>, <<-1, 13>>>>) }
PadArrays == UNION {[1..n -> PadEvents] : n \in 0..MaxPad}

\* the event's position in its array as its id
WithIds(arr) == [i \in 1..Len(arr) |-> [arr[i] EXCEPT !.id = i]]

SFValues == {Frac(-1, 1), Frac(0, 1), Frac(1, 2), Frac(2, 1)}
QueryLepN == 3..5

\* an event of n leptons with the given four scale factors
ScaleFactorEvent(n, sf) ==
    RawEvent(0, [i \in 1..n |-> IF i % 2 = 0 THEN 1 ELSE -1], [i \in 1..n |-> 11],
             125000, R(1), sf[1], sf[2], sf[3], sf[4])
QueryPadEvents ==
    { ScaleFactorEvent(3, <<R(1), R(1), R(1), R(1)>>),
      ScaleFactorEvent(4, <<Frac(1, 2), R(1), R(1), Frac(3, 2)>>),
      ScaleFactorEvent(5, <<R(1), R(1), R(1), R(1)>>) }
QueryPadArrays == UNION {[1..n -> QueryPadEvents] : n \in 0..MaxPad}

UnitIdle ==
    /\ u_in = <<>>
    /\ u_out = None
    /\ u_loc = None
    /\ u_done = FALSE

FilterInput ==
    /\ \E ls \in LeptonLists, pre \in PadArrays, post \in PadArrays :
          u_in = WithIds(pre \o <<LeptonEvent(ls)>> \o post)
    /\ u_out = None
    /\ u_loc = None
    /\ u_done = FALSE

\* lepton_filter(leptons.charge, leptons.typeid)
RunFilter ==
    /\ ~u_done
    /\ u_loc' = lepton_filter_locals(Column(u_in, "lep_charge"),
                                     Column(u_in, "lep_type"))
    /\ u_out' = lepton_filter(Column(u_in, "lep_charge"), Column(u_in, "lep_type"))
    /\ u_done' = TRUE
    /\ UNCHANGED u_in

QueryInput ==
    /\ \E n \in QueryLepN, sf \in [1..4 -> SFValues],
          pre \in QueryPadArrays, post \in QueryPadArrays :
          u_in = WithIds(pre \o <<ScaleFactorEvent(n, sf)>> \o post)
    /\ u_out = None
    /\ u_loc = None
    /\ u_done = FALSE

\* get_lepton_query(ds) evaluated on the rows of one file
RunQuery ==
    /\ ~u_done
    /\ u_out' = get_lepton_query(u_in)
    /\ u_done' = TRUE
    /\ UNCHANGED <<u_in, u_loc>>

----------------------------------------------------------------------------
(* Files to process                                                        *)

prefix ==
    <<"r", "o", "o", "t", ":", "/", "/", "e", "o", "s", "p", "u", "b", "l",
      "i", "c", ".", "c", "e", "r", "n", ".", "c", "h", "/", "/", "e", "o",
      "s", "/", "o", "p", "e", "n", "d", "a", "t", "a", "/", "a", "t", "l",
      "a", "s", "/", "O", "u", "t", "r", "e", "a", "c", "h", "D", "a", "t",
      "a", "s", "e", "t", "s", "/", "2", "0", "2", "0", "-", "0", "1", "-",
      "2", "2", "/", "4", "l", "e", "p", "/">>

\* labels for combinations of datasets
z_ttbar == "Background $Z,t\\bar{t}$"
zzstar == "Background $ZZ^{\\star}$"
signal == "Signal ($m_H$ = 125 GeV)"

\* sample names, as the sequences of characters they are in a file name
s_Zee == <<"Z", "e", "e">>
s_Zmumu == <<"Z", "m", "u", "m", "u">>
s_ttbar_lep == <<"t", "t", "b", "a", "r", "_", "l", "e", "p">>
s_llll == <<"l", "l", "l", "l">>
s_ZZ4lep == <<"_", "Z", "Z", "4", "l", "e", "p">>
s_ggH125_ZZ4lep == <<"g", "g", "H", "1", "2", "5">> \o s_ZZ4lep
s_VBFH125_ZZ4lep == <<"V", "B", "F", "H", "1", "2", "5">> \o s_ZZ4lep
s_WH125_ZZ4lep == <<"W", "H", "1", "2", "5">> \o s_ZZ4lep
s_ZH125_ZZ4lep == <<"Z", "H", "1", "2", "5">> \o s_ZZ4lep

dot4lep_root == <<".", "4", "l", "e", "p", ".", "r", "o", "o", "t">>

\* prefix + "Data/data_<x>.4lep.root"
DataFile(x) ==
    prefix \o <<"D", "a", "t", "a", "/", "d", "a", "t", "a", "_", x>>
           \o dot4lep_root

\* prefix + "MC/mc_<run>.<sample>.4lep.root"
McFile(run, sample) ==
    prefix \o <<"M", "C", "/", "m", "c", "_">> \o run \o <<".">> \o sample
           \o dot4lep_root

\* the keys of fileset, in insertion order
fileset_keys == <<"Data", z_ttbar, zzstar, signal>>

fileset ==
    [k \in {"Data", z_ttbar, zzstar, signal} |->
        CASE k = "Data" ->
                <<DataFile("A"), DataFile("B"), DataFile("C"), DataFile("D")>>
          [] k = z_ttbar ->
                <<McFile(<<"3", "6", "1", "1", "0", "6">>, s_Zee),
                  McFile(<<"3", "6", "1", "1", "0", "7">>, s_Zmumu),
                  McFile(<<"4", "1", "0", "0", "0", "0">>, s_ttbar_lep)>>
          [] k = zzstar ->
                <<McFile(<<"3", "6", "3", "4", "9", "0">>, s_llll)>>
          [] k = signal ->
                <<McFile(<<"3", "4", "5", "0", "6", "0">>, s_ggH125_ZZ4lep),
                  McFile(<<"3", "4", "4", "2", "3", "5">>, s_VBFH125_ZZ4lep),
                  McFile(<<"3", "4", "1", "9", "6", "4">>, s_WH125_ZZ4lep),
                  McFile(<<"3", "4", "1", "9", "4", "7">>, s_ZH125_ZZ4lep)>>]

\* information for histograms
bin_edge_low == 80
bin_edge_high == 250
num_bins == 34

----------------------------------------------------------------------------
(* re.findall(r"mc_\d+\.(.+)\.4lep", filename)[0]                         *)

Digits == {"0", "1", "2", "3", "4", "5", "6", "7", "8", "9"}

\* whether the literal lit stands in s at position i
HasAt(s, i, lit) ==
    /\ i >= 1
    /\ i + Len(lit) - 1 <= Len(s)
    /\ SubSeq(s, i, i + Len(lit) - 1) = lit

\* the position after the longest run of digits that starts at i
RECURSIVE AfterDigits(_, _)
AfterDigits(s, i) ==
    IF i <= Len(s) /\ s[i] \in Digits THEN AfterDigits(s, i + 1) ELSE i

\* the group of a match that starts at i, or None: "mc_", digits (greedy),
\* ".", then the longest non-empty group that ".4lep" follows
GroupAt(s, i) ==
    IF ~HasAt(s, i, <<"m", "c", "_">>) THEN None
    ELSE LET p == AfterDigits(s, i + 3)
         IN  IF p = i + 3 \/ ~HasAt(s, p, <<".">>) THEN None
             ELSE LET ends == {k \in (p + 2)..Len(s) :
                                  HasAt(s, k, <<".", "4", "l", "e", "p">>)}
                  IN  IF ends = {} THEN None
                      ELSE SubSeq(s, p + 1,
                                  (CHOOSE k \in ends : \A j \in ends : j <= k) - 1)

\* the group of the leftmost match: findall(...)[0]
re_findall_0(s) ==
    LET starts == {i \in 1..Len(s) : GroupAt(s, i) # None}
    IN  GroupAt(s, CHOOSE i \in starts : \A j \in starts : i <= j)

\* re_findall_0 of every file name of an MC dataset, evaluated once
SampleOfFilename ==
    [f \in UNION {{fileset[k][i] : i \in 1..Len(fileset[k])} :
                    k \in {z_ttbar, zzstar, signal}} |-> re_findall_0(f)]

----------------------------------------------------------------------------
(* Histograms (hist.Hist with Weight storage).  A histogram is a function  *)
(* from the bins that were filled to cells; a bin outside its domain holds *)
(* the zero cell.  A cell holds the sum of weights, the sum of squared     *)
(* weights and, as a history field the code does not have, the bag of the  *)
(* fills that went into it.  The bins of the m4l axis are 0..num_bins-1,   *)
(* with -1 for underflow and num_bins for overflow.                        *)

VARIABLES
    infos,          \* infofile.infos: sample name -> xsec, sumw, red_eff
    offset,         \* which events ServiceX delivers for each file
    pending,        \* per datasource: the files its stream has yet to deliver
    coffea_info,    \* per datasource: the last item of its stream (the
                    \* executor yields its accumulator itself)
    tpc,            \* per datasource: "running", "done" (returned) or
                    \* "failed" (raised)
    pc,             \* produce_all_histograms: "gather", "returned", "saved"
                    \* or "raised"
    all_histograms, \* what produce_all_histograms returned
    rootfile,       \* histograms.root: the sequence of writes
    exc,            \* the exception set on the future of asyncio.gather,
                    \* which produce_all_histograms raises
    failure,        \* history: the stream that failed first and the error
                    \* its stream raised
    analysis_processor  \* the attributes of the one HZZAnalysis instance

pipe_vars == <<infos, offset, pending, coffea_info, tpc, pc,
               all_histograms, rootfile, exc, failure, analysis_processor>>
vars == <<unit_vars, pipe_vars>>

ZeroCell == [value |-> R(0), variance |-> R(0), entries |-> EmptyBag]
EmptyHist == [k \in {} |-> ZeroCell]
Cell(h, k) == IF k \in DOMAIN h THEN h[k] ELSE ZeroCell

CellAdd(a, b) ==
    [value |-> RAdd(a.value, b.value),
     variance |-> RAdd(a.variance, b.variance),
     entries |-> a.entries (+) b.entries]

\* h1 + h2
HistAdd(a, b) ==
    [k \in DOMAIN a \cup DOMAIN b |-> CellAdd(Cell(a, k), Cell(b, k))]

\* the bin of x on the axis Reg(num_bins, bin_edge_low, bin_edge_high)
axis_index(x) ==
    IF RLt(x, R(bin_edge_low)) THEN -1
    ELSE IF RLe(R(bin_edge_high), x) THEN num_bins
    ELSE RFloor(RDiv(RMul(RAdd(x, R(-bin_edge_low)), R(num_bins)),
                     R(bin_edge_high - bin_edge_low)))

\* the histogram h.fill adds: the values xs with weights ws, xs[i] into the
\* bin with key keys[i]; a bin holds the sum of its weights, the sum of
\* their squares and the bag of its fill records
filled(keys, xs, ws, ids) ==
    LET len == Len(xs)
        rec(j) == [id |-> ids[j], x |-> xs[j], weight |-> ws[j]]
    IN  [k \in {keys[j] : j \in 1..len} |->
            [value |->
                RSum([j \in 1..len |-> IF keys[j] = k THEN ws[j] ELSE R(0)]),
             variance |->
                RSum([j \in 1..len |->
                        IF keys[j] = k THEN RMul(ws[j], ws[j]) ELSE R(0)]),
             entries |->
                [f \in {rec(j) : j \in {m \in 1..len : keys[m] = k}} |->
                    Cardinality({j \in 1..len : keys[j] = k /\ rec(j) = f})]]]

\* mllllhist_data.fill(mllll=xs): every value with weight 1
fill_data(h, xs, ids) ==
    HistAdd(h, filled([j \in 1..Len(xs) |-> axis_index(xs[j])], xs,
                      [j \in 1..Len(xs) |-> R(1)], ids))

\* mllllhist_MC.fill(mllll=xs, dataset=dataset, variation=variation, weight=ws)
fill_MC(h, xs, dataset, variation, ws, ids) ==
    HistAdd(h, filled([j \in 1..Len(xs) |->
                          <<axis_index(xs[j]), dataset, variation>>],
                      xs, ws, ids))

----------------------------------------------------------------------------
(* Event weighting                                                         *)

\* mutant: sumw not multiplied by red_eff
get_xsec_weight_noRedEff(sample) ==
    LET lumi == 10000
        xsec_map == infos[sample]
    IN  RDiv(RMul(R(lumi), xsec_map.xsec), xsec_map.sumw)

get_xsec_weight(sample) ==
    LET lumi == 10000
        xsec_map == infos[sample]
        xsec_weight == RDiv(RMul(R(lumi), xsec_map.xsec),
                            RMul(xsec_map.sumw, xsec_map.red_eff))
    IN  xsec_weight

----------------------------------------------------------------------------
(* The coffea processor                                                    *)

Variations == <<"nominal", "scaleFactorUP", "scaleFactorDOWN", "m4lUP", "m4lDOWN">>

\* mutant: the m4lUP fill takes the weights of the scaleFactorUP variation
process_MC_upWeights(events, mllll, dataset_category, filename) ==
    LET sample == SampleOfFilename[filename]
        n == Len(events)
        ids == Column(events, "id")
        basic_weight ==
            [i \in 1..n |-> RMul(get_xsec_weight(sample), events[i].mcWeight)]
        totalWeights ==
            [i \in 1..n |-> RMul(basic_weight[i], events[i].scaleFactor)]
        totalWeightsUp ==
            [i \in 1..n |-> RMul(basic_weight[i], events[i].scaleFactorUP)]
        totalWeightsDown ==
            [i \in 1..n |-> RMul(basic_weight[i], events[i].scaleFactorDOWN)]
        h1 == fill_MC(EmptyHist, mllll, dataset_category, "nominal",
                      totalWeights, ids)
        h2 == fill_MC(h1, mllll, dataset_category, "scaleFactorUP",
                      totalWeightsUp, ids)
        h3 == fill_MC(h2, mllll, dataset_category, "scaleFactorDOWN",
                      totalWeightsDown, ids)
        h4 == fill_MC(h3, [i \in 1..n |-> RMul(mllll[i], Frac(101, 100))],
                      dataset_category, "m4lUP", totalWeightsUp, ids)
        h5 == fill_MC(h4, [i \in 1..n |-> RMul(mllll[i], Frac(99, 100))],
                      dataset_category, "m4lDOWN", totalWeights, ids)
    IN  h5

\* mutant: the m4lDOWN fill names the variation m4lUP
process_MC_downIntoUp(events, mllll, dataset_category, filename) ==
    LET sample == SampleOfFilename[filename]
        n == Len(events)
        ids == Column(events, "id")
        basic_weight ==
            [i \in 1..n |-> RMul(get_xsec_weight(sample), events[i].mcWeight)]
        totalWeights ==
            [i \in 1..n |-> RMul(basic_weight[i], events[i].scaleFactor)]
        totalWeightsUp ==
            [i \in 1..n |-> RMul(basic_weight[i], events[i].scaleFactorUP)]
        totalWeightsDown ==
            [i \in 1..n |-> RMul(basic_weight[i], events[i].scaleFactorDOWN)]
        h1 == fill_MC(EmptyHist, mllll, dataset_category, "nominal",
                      totalWeights, ids)
        h2 == fill_MC(h1, mllll, dataset_category, "scaleFactorUP",
                      totalWeightsUp, ids)
        h3 == fill_MC(h2, mllll, dataset_category, "scaleFactorDOWN",
                      totalWeightsDown, ids)
        h4 == fill_MC(h3, [i \in 1..n |-> RMul(mllll[i], Frac(101, 100))],
                      dataset_category, "m4lUP", totalWeights, ids)
        h5 == fill_MC(h4, [i \in 1..n |-> RMul(mllll[i], Frac(99, 100))],
                      dataset_category, "m4lUP", totalWeights, ids)
    IN  h5

\* the fills of the MC branch of process, for the selected events
process_MC(events, mllll, dataset_category, filename) ==
    LET sample == SampleOfFilename[filename]
        n == Len(events)
        ids == Column(events, "id")
        basic_weight ==
            [i \in 1..n |-> RMul(get_xsec_weight(sample), events[i].mcWeight)]
        totalWeights ==
            [i \in 1..n |-> RMul(basic_weight[i], events[i].scaleFactor)]
        totalWeightsUp ==
            [i \in 1..n |-> RMul(basic_weight[i], events[i].scaleFactorUP)]
        totalWeightsDown ==
            [i \in 1..n |-> RMul(basic_weight[i], events[i].scaleFactorDOWN)]
        h1 == fill_MC(EmptyHist, mllll, dataset_category, "nominal",
                      totalWeights, ids)
        h2 == fill_MC(h1, mllll, dataset_category, "scaleFactorUP",
                      totalWeightsUp, ids)
        h3 == fill_MC(h2, mllll, dataset_category, "scaleFactorDOWN",
                      totalWeightsDown, ids)
        h4 == fill_MC(h3, [i \in 1..n |-> RMul(mllll[i], Frac(101, 100))],
                      dataset_category, "m4lUP", totalWeights, ids)
        h5 == fill_MC(h4, [i \in 1..n |-> RMul(mllll[i], Frac(99, 100))],
                      dataset_category, "m4lDOWN", totalWeights, ids)
    IN  h5

\* mutant: the lepton_filter cut is not applied to events
process_noCut(events, metadata) ==
    LET dataset_category == metadata.dataset_category
        selected == events
        mllll == [i \in 1..Len(selected) |-> Frac(selected[i].mass, 1000)]
    IN  IF dataset_category = "Data"
        THEN [data |-> fill_data(EmptyHist, mllll, Column(selected, "id")),
              MC |-> EmptyHist]
        ELSE [data |-> EmptyHist,
              MC |-> process_MC(selected, mllll, dataset_category,
                                metadata.filename)]

\* HZZAnalysis.process(events), events.metadata = metadata
process(events, metadata) ==
    LET dataset_category == metadata.dataset_category
        selected == Masked(events, lepton_filter(Column(events, "lep_charge"),
                                                 Column(events, "lep_typeid")))
        mllll == [i \in 1..Len(selected) |-> Frac(selected[i].mass, 1000)]
    IN  IF dataset_category = "Data"
        THEN [data |-> fill_data(EmptyHist, mllll, Column(selected, "id")),
              MC |-> EmptyHist]
        ELSE [data |-> EmptyHist,
              MC |-> process_MC(selected, mllll, dataset_category,
                                metadata.filename)]

\* HZZAnalysis(): the attributes of a new instance; the class defines none
HZZAnalysis == <<>>

\* mutant: the histograms are kept in an attribute of the instance and
\* every call fills those
process_call_sharedHists(self, events, metadata) ==
    LET kept == IF "hists" \in DOMAIN self THEN self["hists"]
                ELSE [data |-> EmptyHist, MC |-> EmptyHist]
        partial == process(events, metadata)
        output == [data |-> HistAdd(kept.data, partial.data),
                   MC |-> HistAdd(kept.MC, partial.MC)]
    IN  [self |-> ("hists" :> output), output |-> output]

\* analysis_processor.process(events): what the call returns and the
\* attributes of the instance after it; process reads and writes none
process_call(self, events, metadata) ==
    [self |-> self, output |-> process(events, metadata)]

----------------------------------------------------------------------------
(* Inputs: the infofile table and the events ServiceX delivers             *)

MaxEvents == 2      \* events in one delivered file
NumOffsets == 4     \* alternative contents of the files

Info(xsec, sumw, red_eff) == [xsec |-> xsec, sumw |-> sumw, red_eff |-> red_eff]

Samples == {s_Zee, s_Zmumu, s_ttbar_lep, s_llll, s_ggH125_ZZ4lep,
            s_VBFH125_ZZ4lep, s_WH125_ZZ4lep, s_ZH125_ZZ4lep}

InfoTableA ==
    [s \in Samples |->
        CASE s = s_Zee -> Info(R(2), R(10000), Frac(1, 2))
          [] s = s_Zmumu -> Info(R(3), R(20000), R(2))
          [] s = s_ttbar_lep -> Info(R(1), R(40000), Frac(1, 4))
          [] s = s_llll -> Info(R(1), R(5000), R(2))
          [] s = s_ggH125_ZZ4lep -> Info(R(1), R(100000), Frac(1, 5))
          [] s = s_VBFH125_ZZ4lep -> Info(R(1), R(10000), Frac(1, 3))
          [] s = s_WH125_ZZ4lep -> Info(R(2), R(10000), R(4))
          [] s = s_ZH125_ZZ4lep -> Info(R(3), R(10000), R(3))]

InfoTableB ==
    [s \in Samples |->
        CASE s = s_Zee -> Info(R(1), R(20000), R(2))
          [] s = s_Zmumu -> Info(R(5), R(10000), Frac(5, 2))
          [] s = s_ttbar_lep -> Info(R(3), R(10000), Frac(3, 2))
          [] s = s_llll -> Info(Frac(1, 2), R(1000), R(5))
          [] s = s_ggH125_ZZ4lep -> Info(R(2), R(10000), Frac(2, 3))
          [] s = s_VBFH125_ZZ4lep -> Info(R(1), R(5000), R(4))
          [] s = s_WH125_ZZ4lep -> Info(R(1), R(10000), Frac(1, 2))
          [] s = s_ZH125_ZZ4lep -> Info(R(1), R(2000), Frac(5, 2))]

InfoTables == {InfoTableA, InfoTableB}

e11 == <<11, 11, 11, 11>>
e13 == <<13, 13, 13, 13>>
e2mu2 == <<11, 11, 13, 13>>

\* the rows the delivered files are cut from: accepted events below the
\* axis range, inside it and next to its two ends, and events each cut rejects
EventPool ==
    << RawEvent(0, <<1, -1, 1, -1>>, e2mu2, 124000, R(1),
                R(1), Frac(1, 2), R(1), R(1)),
       RawEvent(0, <<1, 1, -1, -1>>, e11, 80500, R(-1),
                R(1), R(1), R(1), Frac(3, 2)),
       RawEvent(0, <<1, -1, 1>>, <<11, 11, 13>>, 91000, R(1),
                R(1), R(1), R(1), R(1)),
       RawEvent(0, <<1, -1, 1, -1>>, <<11, 11, 11, 13>>, 130000, R(1),
                R(1), R(1), R(1), R(1)),
       RawEvent(0, <<-1, 1, 1, -1>>, e13, 249000, Frac(1, 2),
                R(1), R(1), R(2), R(1)),
       RawEvent(0, <<1, 1, 1, -1>>, e2mu2, 125000, R(1),
                R(1), R(1), R(1), R(1)),
       RawEvent(0, <<1, -1, -1, 1>>, e11, 79500, R(2),
                Frac(1, 2), R(1), R(1), R(1)),
       RawEvent(0, <<1, -1, 1, -1, 1>>, <<11, 11, 13, 13, 11>>, 125000, R(1),
                R(1), R(1), R(1), R(1)) >>

\* the number of a file among all files of fileset, from 0
FileNumber(k, i) ==
    LET before == [n \in 1..Len(fileset_keys) |->
                      SeqSum([m \in 1..(n - 1) |-> Len(fileset[fileset_keys[m]])])]
        n == CHOOSE n \in 1..Len(fileset_keys) : fileset_keys[n] = k
    IN  before[n] + i - 1

\* the rows of file i of dataset k: MaxEvents consecutive rows of the pool
Delivery(k, i) ==
    [j \in 1..MaxEvents |->
        [EventPool[((3 * FileNumber(k, i) + offset + j - 1) % Len(EventPool)) + 1]
            EXCEPT !.id = <<k, i, j>>]]

----------------------------------------------------------------------------
(* produce_all_histograms                                                  *)

DatasetNames == {fileset_keys[n] : n \in 1..Len(fileset_keys)}

\* coffea's accumulate([output, partial]) of two processor outputs
accumulate(a, b) ==
    [data |-> HistAdd(a.data, b.data), MC |-> HistAdd(a.MC, b.MC)]

\* mutant: the first histogram of the list is left out of the sum
py_sum_skipFirst(hs) ==
    LET F[i \in 1..Len(hs)] ==
            IF i = 1 THEN EmptyHist ELSE HistAdd(F[i - 1], hs[i])
    IN  F[Len(hs)]

\* sum(hs): 0 + hs[0] + hs[1] + ...
py_sum(hs) ==
    LET F[i \in 0..Len(hs)] ==
            IF i = 0 THEN EmptyHist ELSE HistAdd(F[i - 1], hs[i])
    IN  F[Len(hs)]

\* all_histograms["MC"][:, dataset, variation]
Slice(h, dataset, variation) ==
    [b \in {k[1] : k \in {kk \in DOMAIN h :
                            kk[2] = dataset /\ kk[3] = variation}} |->
        h[<<b, dataset, variation>>]]

Write(name, h) == [name |-> name, hist |-> h]

\* mutant: ZZ_m4l_down written from the m4lUP slice
histogram_writes_copyPaste(h) ==
    << Write("data", h.data),
       Write("Z_tt", Slice(h.MC, z_ttbar, "nominal")),
       Write("Z_tt_SF_up", Slice(h.MC, z_ttbar, "scaleFactorUP")),
       Write("Z_tt_SF_down", Slice(h.MC, z_ttbar, "scaleFactorDOWN")),
       Write("Z_tt_m4l_up", Slice(h.MC, z_ttbar, "m4lUP")),
       Write("Z_tt_m4l_down", Slice(h.MC, z_ttbar, "m4lDOWN")),
       Write("ZZ", Slice(h.MC, zzstar, "nominal")),
       Write("ZZ_SF_up", Slice(h.MC, zzstar, "scaleFactorUP")),
       Write("ZZ_SF_down", Slice(h.MC, zzstar, "scaleFactorDOWN")),
       Write("ZZ_m4l_up", Slice(h.MC, zzstar, "m4lUP")),
       Write("ZZ_m4l_down", Slice(h.MC, zzstar, "m4lUP")),
       Write("signal", Slice(h.MC, signal, "nominal")),
       Write("signal_SF_up", Slice(h.MC, signal, "scaleFactorUP")),
       Write("signal_SF_down", Slice(h.MC, signal, "scaleFactorDOWN")),
       Write("signal_m4l_up", Slice(h.MC, signal, "m4lUP")),
       Write("signal_m4l_down", Slice(h.MC, signal, "m4lDOWN")) >>

\* the assignments f[name] = ... of the uproot.recreate block, in order
histogram_writes(h) ==
    << Write("data", h.data),
       Write("Z_tt", Slice(h.MC, z_ttbar, "nominal")),
       Write("Z_tt_SF_up", Slice(h.MC, z_ttbar, "scaleFactorUP")),
       Write("Z_tt_SF_down", Slice(h.MC, z_ttbar, "scaleFactorDOWN")),
       Write("Z_tt_m4l_up", Slice(h.MC, z_ttbar, "m4lUP")),
       Write("Z_tt_m4l_down", Slice(h.MC, z_ttbar, "m4lDOWN")),
       Write("ZZ", Slice(h.MC, zzstar, "nominal")),
       Write("ZZ_SF_up", Slice(h.MC, zzstar, "scaleFactorUP")),
       Write("ZZ_SF_down", Slice(h.MC, zzstar, "scaleFactorDOWN")),
       Write("ZZ_m4l_up", Slice(h.MC, zzstar, "m4lUP")),
       Write("ZZ_m4l_down", Slice(h.MC, zzstar, "m4lDOWN")),
       Write("signal", Slice(h.MC, signal, "nominal")),
       Write("signal_SF_up", Slice(h.MC, signal, "scaleFactorUP")),
       Write("signal_SF_down", Slice(h.MC, signal, "scaleFactorDOWN")),
       Write("signal_m4l_up", Slice(h.MC, signal, "m4lUP")),
       Write("signal_m4l_down", Slice(h.MC, signal, "m4lDOWN")) >>

\* an exception object: its class, its message and its __cause__
Error(class, message, cause) ==
    [class |-> class, message |-> message, cause |-> cause]

\* the errors a stream raises: one that is an instance of Exception and one
\* that is only an instance of BaseException
StreamErrors ==
    {Error("RuntimeError", "transform failed", None),
     Error("BaseException", "interrupted", None)}

\* isinstance(e, Exception), which "except Exception" tests
isinstance_Exception(e) == e.class \in {"Exception", "RuntimeError"}

\* mutant: the message does not name the datasource
run_updates_stream_raise_noName(name, e) ==
    IF isinstance_Exception(e)
    THEN Error("Exception", "Failure while processing ", e)
    ELSE e

\* what run_updates_stream(accumulator_stream, name) raises when its stream
\* raises e: except Exception as e: raise Exception(f"Failure ...") from e
run_updates_stream_raise(name, e) ==
    IF isinstance_Exception(e)
    THEN Error("Exception", "Failure while processing " \o name, e)
    ELSE e

\* the tasks of gather exist until produce_all_histograms returns; when it
\* raises, gather does not cancel the tasks that still run
TasksAlive == pc \in {"gather", "raised"}

PipeStart ==
    /\ pending = [k \in DatasetNames |-> [i \in 1..Len(fileset[k]) |-> i]]
    /\ coffea_info = [k \in DatasetNames |-> None]
    /\ tpc = [k \in DatasetNames |-> "running"]
    /\ pc = "gather"
    /\ all_histograms = None
    /\ rootfile = None
    /\ exc = None
    /\ failure = None
    /\ analysis_processor = HZZAnalysis

\* the pipeline is not run in a unit run
PipeIdle ==
    /\ infos = InfoTableA
    /\ offset = 0
    /\ PipeStart

Init ==
    /\ infos \in InfoTables
    /\ offset \in 0..(NumOffsets - 1)
    /\ PipeStart
    /\ UnitIdle

\* utils.make_datasource(fileset, ds_name, lepton_query): the metadata the
\* events of file i of the datasource of dataset k carry
datasource_metadata(k, i) ==
    [dataset_category |-> k, filename |-> fileset[k][i]]

\* The stream of datasource k yields its next item: ServiceX delivers the
\* next file (here in the order of fileset[k]; the sum of histograms does
\* not depend on it), the executor runs process on it, adds the result to
\* its accumulator (the item yielded before) and yields it;
\* run_updates_stream keeps it.
StreamItem(k) ==
    /\ TasksAlive
    /\ tpc[k] = "running"
    /\ pending[k] # <<>>
    /\ LET i == Head(pending[k])
           events == get_lepton_query(Delivery(k, i))
           metadata == datasource_metadata(k, i)
           call == process_call(analysis_processor, events, metadata)
           partial == call.output
           item == IF coffea_info[k] = None THEN partial
                   ELSE accumulate(coffea_info[k], partial)
       IN  /\ coffea_info' = [coffea_info EXCEPT ![k] = item]
           /\ analysis_processor' = call.self
    /\ pending' = [pending EXCEPT ![k] = Tail(@)]
    /\ UNCHANGED <<infos, offset, tpc, pc, all_histograms, rootfile, exc,
                   failure, unit_vars>>

\* The stream of datasource k ends and run_updates_stream returns.
StreamEnd(k) ==
    /\ TasksAlive
    /\ tpc[k] = "running"
    /\ pending[k] = <<>>
    /\ tpc' = [tpc EXCEPT ![k] = "done"]
    /\ UNCHANGED <<infos, offset, pending, coffea_info, pc,
                   all_histograms, rootfile, exc, failure,
                   analysis_processor, unit_vars>>

\* The stream of datasource k raises e instead of its next item or its end:
\* run_updates_stream raises in turn, which ends the stream and drops the
\* local coffea_info, and gather sets the first exception of its tasks on
\* its own future.
StreamFail(k) ==
    /\ TasksAlive
    /\ tpc[k] = "running"
    /\ tpc' = [tpc EXCEPT ![k] = "failed"]
    /\ pending' = [pending EXCEPT ![k] = <<>>]
    /\ coffea_info' = [coffea_info EXCEPT ![k] = None]
    /\ \E e \in StreamErrors :
          IF exc = None
          THEN /\ exc' = run_updates_stream_raise(
                             datasource_metadata(k, 1).dataset_category, e)
               /\ failure' = [stream |-> k, error |-> e]
          ELSE UNCHANGED <<exc, failure>>
    /\ UNCHANGED <<infos, offset, pc, all_histograms, rootfile,
                   analysis_processor, unit_vars>>

\* await asyncio.gather(...) raises the exception of its future, and so
\* does produce_all_histograms: the two sums and the return are not run.
GatherRaise ==
    /\ pc = "gather"
    /\ exc # None
    /\ pc' = "raised"
    /\ UNCHANGED <<infos, offset, pending, coffea_info, tpc,
                   all_histograms, rootfile, exc, failure,
                   analysis_processor, unit_vars>>

\* asyncio.gather returns the results in the order of datasources, and
\* produce_all_histograms sums them and returns.
GatherReturn ==
    /\ pc = "gather"
    /\ \A k \in DatasetNames : tpc[k] = "done"
    /\ LET all_histogram_dicts ==
               [n \in 1..Len(fileset_keys) |-> coffea_info[fileset_keys[n]]]
           full_data_histogram == py_sum(Column(all_histogram_dicts, "data"))
           full_mc_histogram == py_sum(Column(all_histogram_dicts, "MC"))
       IN  all_histograms' = [data |-> full_data_histogram,
                              MC |-> full_mc_histogram]
    /\ pc' = "returned"
    /\ UNCHANGED <<infos, offset, pending, coffea_info, tpc, rootfile,
                   exc, failure, analysis_processor, unit_vars>>

\* with uproot.recreate(file_name) as f: f[...] = ...
SaveHistograms ==
    /\ pc = "returned"
    /\ rootfile' = histogram_writes(all_histograms)
    /\ pc' = "saved"
    /\ UNCHANGED <<infos, offset, pending, coffea_info, tpc,
                   all_histograms, exc, failure, analysis_processor,
                   unit_vars>>

Next ==
    \/ \E k \in DatasetNames : StreamItem(k)
    \/ \E k \in DatasetNames : StreamEnd(k)
    \/ GatherReturn
    \/ SaveHistograms

Spec == Init /\ [][Next]_vars

\* the runs in which streams may fail, on one table and one set of files
InitFail == PipeIdle /\ UnitIdle

NextFail ==
    \/ \E k \in DatasetNames : StreamItem(k)
    \/ \E k \in DatasetNames : StreamEnd(k)
    \/ \E k \in DatasetNames : StreamFail(k)
    \/ GatherReturn
    \/ GatherRaise
    \/ SaveHistograms

SpecFail == InitFail /\ [][NextFail]_vars

NextFilter == RunFilter /\ UNCHANGED pipe_vars
NextQuery == RunQuery /\ UNCHANGED pipe_vars

InitFilter == FilterInput /\ PipeIdle
InitQuery == QueryInput /\ PipeIdle

SpecFilter == InitFilter /\ [][NextFilter]_vars
SpecQuery == InitQuery /\ [][NextQuery]_vars

----------------------------------------------------------------------------
(* Claims about lepton_filter and the query                                *)

NumWith(s, v) == Cardinality({i \in 1..Len(s) : s[i] = v})

\* C1: lepton_filter returns one boolean per input event, in input order,
\* and the boolean of an event is TRUE if and only if the sum of its lepton
\* charges is 0 and the sum of its lepton type ids is 44, 48 or 52.
C1_FilterIff ==
    u_done =>
        /\ Len(u_out) = Len(u_in)
        /\ \A i \in 1..Len(u_in) :
              u_out[i] = ( /\ SeqSum(u_in[i].lep_charge) = 0
                           /\ SeqSum(u_in[i].lep_type) \in {44, 48, 52} )

\* an accepted event precedes a rejected one, and the mask says so
C1_Witness ==
    /\ u_done
    /\ \E i, j \in 1..Len(u_in) : i < j /\ u_out[i] /\ ~u_out[j]

\* C2: for an event of four leptons of types 11 and 13, the type cut holds
\* exactly when the event has 4, 2 or 0 electrons (4e, 2e2mu, 4mu); 3e1mu
\* and 1e3mu fail the type cut and are rejected by lepton_filter.
C2_TypeCut ==
    u_done =>
        \A i \in 1..Len(u_in) :
            ( /\ Len(u_in[i].lep_type) = 4
              /\ \A k \in 1..4 : u_in[i].lep_type[k] \in {11, 13} )
            => /\ u_loc.good_lep_type[i]
                    <=> NumWith(u_in[i].lep_type, 11) \in {0, 2, 4}
               /\ NumWith(u_in[i].lep_type, 11) \in {1, 3} => ~u_out[i]

\* a 1e3mu event with cancelling charges was given to the filter
C2_Witness ==
    /\ u_done
    /\ \E i \in 1..Len(u_in) :
          /\ Len(u_in[i].lep_type) = 4
          /\ NumWith(u_in[i].lep_type, 11) = 1
          /\ NumWith(u_in[i].lep_type, 13) = 3
          /\ SeqSum(u_in[i].lep_charge) = 0
          /\ ~u_out[i]

\* C3: a four-lepton event with charges +1 or -1 that lepton_filter accepts
\* has exactly two positive and two negative leptons.
C3_ChargePairs ==
    u_done =>
        \A i \in 1..Len(u_in) :
            ( /\ u_out[i]
              /\ Len(u_in[i].lep_charge) = 4
              /\ \A k \in 1..4 : u_in[i].lep_charge[k] \in {-1, 1} )
            => /\ NumWith(u_in[i].lep_charge, 1) = 2
               /\ NumWith(u_in[i].lep_charge, -1) = 2

\* a four-muon event with two positive and two negative muons was accepted
C3_Witness ==
    /\ u_done
    /\ \E i \in 1..Len(u_in) :
          /\ u_out[i]
          /\ Len(u_in[i].lep_charge) = 4
          /\ NumWith(u_in[i].lep_type, 13) = 4
          /\ NumWith(u_in[i].lep_charge, 1) = 2

\* numerator and denominator of the product of the four raw scale factors
SFNum(e) == e.scaleFactor_ELE[1] * e.scaleFactor_MUON[1]
            * e.scaleFactor_LepTRIGGER[1] * e.scaleFactor_PILEUP[1]
SFDen(e) == e.scaleFactor_ELE[2] * e.scaleFactor_MUON[2]
            * e.scaleFactor_LepTRIGGER[2] * e.scaleFactor_PILEUP[2]

\* the positions of the four-lepton events of an array, in order
FourLeptonIds(arr) ==
    LET F[i \in 0..Len(arr)] ==
            IF i = 0 THEN <<>>
            ELSE IF arr[i].lep_n = 4 THEN Append(F[i - 1], i) ELSE F[i - 1]
    IN  F[Len(arr)]

\* C6: the query selects exactly the four-lepton events, and for each of
\* them scaleFactor is the product of the four raw scale factors,
\* scaleFactorUP that product times 11/10 and scaleFactorDOWN that product
\* times 9/10; for a positive product DOWN < nominal < UP.
C6_ScaleFactors ==
    u_done =>
        /\ Column(u_out, "id") = FourLeptonIds(u_in)
        /\ \A j \in 1..Len(u_out) :
              LET e == u_in[u_out[j].id]
                  o == u_out[j]
              IN  /\ o.scaleFactor[1] * SFDen(e) = SFNum(e) * o.scaleFactor[2]
                  /\ o.scaleFactorUP[1] * SFDen(e) * 10
                        = 11 * SFNum(e) * o.scaleFactorUP[2]
                  /\ o.scaleFactorDOWN[1] * SFDen(e) * 10
                        = 9 * SFNum(e) * o.scaleFactorDOWN[2]
                  /\ SFNum(e) > 0 =>
                        /\ RLt(o.scaleFactorDOWN, o.scaleFactor)
                        /\ RLt(o.scaleFactor, o.scaleFactorUP)

\* a selected event with a positive product that is not 1, whose pile-up
\* factor is not 1, next to an event the query dropped
C6_Witness ==
    /\ u_done
    /\ Len(u_out) < Len(u_in)
    /\ \E j \in 1..Len(u_out) :
          /\ RLt(R(0), u_out[j].scaleFactor)
          /\ u_out[j].scaleFactor # R(1)
          /\ u_in[u_out[j].id].scaleFactor_PILEUP # R(1)

----------------------------------------------------------------------------
(* Claims about the pipeline                                               *)

AllBins == -1..num_bins
McDatasets == {z_ttbar, zzstar, signal}
VariationNames == {Variations[n] : n \in 1..Len(Variations)}
McKeys == AllBins \X McDatasets \X VariationNames

\* the raw row an id names
RawOf(id) == Delivery(id[1], id[2])[id[3]]

\* whether a raw row passes both cuts, stated on the row itself
PassesCuts(e) ==
    /\ e.lep_n = 4
    /\ SeqSum(e.lep_charge) = 0
    /\ SeqSum(e.lep_type) \in {44, 48, 52}

\* the fill records of histogram h
Fills(h) == UNION {BagToSet(h[k].entries) : k \in DOMAIN h}

\* how many times the event id was filled into the bins keys of h
NumFills(h, keys, id) ==
    Cardinality(UNION {
        UNION { {<<k, f, c>> : c \in 1..h[k].entries[f]} :
                f \in {g \in BagToSet(h[k].entries) : g.id = id} } :
        k \in DOMAIN h \cap keys })

\* how many fills went into the bins keys of h
NumEntries(h, keys) ==
    Cardinality(UNION {
        UNION { {<<k, f, c>> : c \in 1..h[k].entries[f]} :
                f \in BagToSet(h[k].entries) } :
        k \in DOMAIN h \cap keys })

KeysOf(dataset, variation) == AllBins \X {dataset} \X {variation}

\* the sum of weights of all bins of one dataset and variation, flow included
TotalWeight(h, dataset, variation) ==
    RSum([i \in 1..(num_bins + 2) |->
            Cell(h, <<i - 2, dataset, variation>>).value])

Returned == pc \in {"returned", "saved"}

\* C4: every fill of the returned data and MC histograms comes from an
\* event with exactly four leptons that lepton_filter accepts (charge sum
\* 0, type sum 44, 48 or 52).
C4_OnlySelectedFilled ==
    Returned =>
        \A f \in Fills(all_histograms.data) \cup Fills(all_histograms.MC) :
            PassesCuts(RawOf(f.id))

\* histograms were returned with data and MC fills, while the files held
\* a row without four leptons and a four-lepton row the filter rejects
C4_Witness ==
    /\ Returned
    /\ Fills(all_histograms.data) # {}
    /\ Fills(all_histograms.MC) # {}
    /\ \E k \in DatasetNames : \E i \in 1..Len(fileset[k]) :
          \E j \in 1..MaxEvents : Delivery(k, i)[j].lep_n # 4
    /\ \E k \in DatasetNames : \E i \in 1..Len(fileset[k]) :
          \E j \in 1..MaxEvents :
              /\ Delivery(k, i)[j].lep_n = 4
              /\ ~PassesCuts(Delivery(k, i)[j])

\* C5: in the returned MC histogram every selected event of an MC
\* datasource is filled exactly once into each of the five variations of
\* its own dataset category and into no other category, rejected events
\* are filled nowhere, and so the five variations of a category have the
\* same number of entries.
C5_FiveVariationsOnce ==
    Returned =>
        /\ Len(Variations) = 5
        /\ \A k \in McDatasets : \A i \in 1..Len(fileset[k]) :
              \A j \in 1..MaxEvents : \A d \in McDatasets : \A v \in VariationNames :
                  NumFills(all_histograms.MC, KeysOf(d, v), <<k, i, j>>)
                    = IF d = k /\ PassesCuts(Delivery(k, i)[j]) THEN 1 ELSE 0
        /\ \A k \in McDatasets : \A v \in VariationNames :
              NumEntries(all_histograms.MC, KeysOf(k, v))
                = NumEntries(all_histograms.MC, KeysOf(k, "nominal"))
        /\ DOMAIN all_histograms.MC \subseteq McKeys

\* every MC category received entries, one of them two or more
C5_Witness ==
    /\ Returned
    /\ \A k \in McDatasets :
          NumEntries(all_histograms.MC, KeysOf(k, "m4lDOWN")) >= 1
    /\ \E k \in McDatasets :
          NumEntries(all_histograms.MC, KeysOf(k, "m4lUP")) >= 2

\* the sample each MC file name carries
ExpectedSample ==
    [k \in McDatasets |->
        CASE k = z_ttbar -> <<s_Zee, s_Zmumu, s_ttbar_lep>>
          [] k = zzstar -> <<s_llll>>
          [] k = signal -> <<s_ggH125_ZZ4lep, s_VBFH125_ZZ4lep,
                             s_WH125_ZZ4lep, s_ZH125_ZZ4lep>>]

\* (10000 * xsec) / (sumw * red_eff) of the infofile entry of file i of k
ExpectedXsecWeight(k, i) ==
    LET info == infos[ExpectedSample[k][i]]
    IN  RDiv(RMul(R(10000), info.xsec), RMul(info.sumw, info.red_eff))

\* the product of the four raw scale factors of a row
RawScaleFactor(e) == Frac(SFNum(e), SFDen(e))

\* C7: every nominal fill of an MC event has the weight
\* (10000 * xsec) / (sumw * red_eff) * mcWeight * scaleFactor, with xsec,
\* sumw and red_eff from the infofile entry of the sample in the name of
\* the event's file; the first factor is the same for all events of a file.
C7_NominalWeight ==
    Returned =>
        \A key \in DOMAIN all_histograms.MC :
            key[3] = "nominal" =>
                \A f \in BagToSet(all_histograms.MC[key].entries) :
                    LET e == RawOf(f.id)
                    IN  f.weight =
                            RMul(RMul(ExpectedXsecWeight(f.id[1], f.id[2]),
                                      e.mcWeight), RawScaleFactor(e))

\* nominal fills from two files of one category whose samples have
\* different cross-section weights, one of them not 1
C7_Witness ==
    /\ Returned
    /\ \E f, g \in Fills(all_histograms.MC) :
          /\ f.id[1] = g.id[1]
          /\ f.id[2] # g.id[2]
          /\ ExpectedXsecWeight(f.id[1], f.id[2])
                # ExpectedXsecWeight(g.id[1], g.id[2])
          /\ ExpectedXsecWeight(f.id[1], f.id[2]) # R(1)
          /\ infos[ExpectedSample[f.id[1]][f.id[2]]].red_eff # R(1)

\* the cell that is the sum of the cells with key k of the last items
SumOfLastItems(part, k) ==
    LET cells == [n \in 1..Len(fileset_keys) |->
                    Cell(coffea_info[fileset_keys[n]][part], k)]
    IN  [value |-> RSum(Column(cells, "value")),
         variance |-> RSum(Column(cells, "variance")),
         entries |-> cells[1].entries (+) cells[2].entries
                     (+) cells[3].entries (+) cells[4].entries]

\* C8: there is one stream per key of fileset (four); once
\* produce_all_histograms has returned, every stream has ended, and each
\* bin of the returned data and MC histograms is the sum of that bin over
\* the last items of the four streams, each stream counted once.
C8_FanIn ==
    /\ DOMAIN coffea_info = {fileset_keys[n] : n \in 1..Len(fileset_keys)}
    /\ Cardinality(DOMAIN coffea_info) = 4
    /\ Returned =>
          /\ \A k \in DatasetNames : tpc[k] = "done" /\ pending[k] = <<>>
          /\ \A b \in AllBins :
                Cell(all_histograms.data, b) = SumOfLastItems("data", b)
          /\ \A k \in McKeys :
                Cell(all_histograms.MC, k) = SumOfLastItems("MC", k)
          /\ DOMAIN all_histograms.data \subseteq AllBins
          /\ DOMAIN all_histograms.MC \subseteq McKeys

\* returned with data fills and fills of every MC category
C8_Witness ==
    /\ pc = "returned"
    /\ Fills(all_histograms.data) # {}
    /\ \A k \in McDatasets :
          \E key \in DOMAIN all_histograms.MC : key[2] = k

\* the name of the entry of each category and variation
ExpectedName ==
    [k \in McDatasets |->
        CASE k = z_ttbar ->
                [nominal |-> "Z_tt", scaleFactorUP |-> "Z_tt_SF_up",
                 scaleFactorDOWN |-> "Z_tt_SF_down", m4lUP |-> "Z_tt_m4l_up",
                 m4lDOWN |-> "Z_tt_m4l_down"]
          [] k = zzstar ->
                [nominal |-> "ZZ", scaleFactorUP |-> "ZZ_SF_up",
                 scaleFactorDOWN |-> "ZZ_SF_down", m4lUP |-> "ZZ_m4l_up",
                 m4lDOWN |-> "ZZ_m4l_down"]
          [] k = signal ->
                [nominal |-> "signal", scaleFactorUP |-> "signal_SF_up",
                 scaleFactorDOWN |-> "signal_SF_down",
                 m4lUP |-> "signal_m4l_up", m4lDOWN |-> "signal_m4l_down"]]

\* the writes of histograms.root under the name nm
WritesNamed(nm) == {n \in 1..Len(rootfile) : rootfile[n].name = nm}

\* C9: histograms.root gets exactly 16 entries, each name written once:
\* "data" holds the returned data histogram, and the entry named after a
\* category and a variation holds, bin by bin, the m4l slice of the
\* returned MC histogram for that category and that variation.
C9_SixteenEntries ==
    pc = "saved" =>
        /\ Len(rootfile) = 16
        /\ \A n, m \in 1..Len(rootfile) :
              rootfile[n].name = rootfile[m].name => n = m
        /\ \E n \in WritesNamed("data") :
              \A b \in AllBins :
                  Cell(rootfile[n].hist, b) = Cell(all_histograms.data, b)
        /\ \A k \in McDatasets : \A v \in VariationNames :
              \E n \in WritesNamed(ExpectedName[k][v]) :
                  /\ DOMAIN rootfile[n].hist \subseteq AllBins
                  /\ \A b \in AllBins :
                        Cell(rootfile[n].hist, b)
                          = Cell(all_histograms.MC, <<b, k, v>>)

\* saved, with the five slices of ZZ pairwise different
C9_Witness ==
    /\ pc = "saved"
    /\ \A v, w \in VariationNames :
          v # w =>
            \E n \in WritesNamed(ExpectedName[zzstar][v]) :
              \E m \in WritesNamed(ExpectedName[zzstar][w]) :
                  rootfile[n].hist # rootfile[m].hist

\* the bin whose edges enclose x, stated by the edges: 5 GeV bins from 80
BinHolds(b, x) ==
    IF b = -1 THEN RLt(x, R(80))
    ELSE IF b = 34 THEN RLe(R(250), x)
    ELSE RLe(R(80 + 5 * b), x) /\ RLt(x, R(85 + 5 * b))

\* C10: an MC event of mass m and basic weight b = xsec weight * mcWeight
\* is filled at m with b*scaleFactor (nominal), b*scaleFactorUP and
\* b*scaleFactorDOWN, and at m*101/100 (m4lUP) and m*99/100 (m4lDOWN) with
\* b*scaleFactor, each in the bin that holds the filled value; the total
\* weight with flow bins of nominal, m4lUP and m4lDOWN is equal per category.
C10_Variations ==
    Returned =>
        /\ \A key \in DOMAIN all_histograms.MC :
              \A f \in BagToSet(all_histograms.MC[key].entries) :
                  LET raw == RawOf(f.id)
                      cols == SelectColumns(raw)
                      m4l == Frac(raw.mass, 1000)
                      basic == RMul(ExpectedXsecWeight(f.id[1], f.id[2]),
                                    raw.mcWeight)
                      var == key[3]
                  IN  /\ BinHolds(key[1], f.x)
                      /\ f.x = CASE var = "m4lUP" -> RMul(m4l, Frac(101, 100))
                                 [] var = "m4lDOWN" -> RMul(m4l, Frac(99, 100))
                                 [] OTHER -> m4l
                      /\ f.weight =
                            CASE var = "scaleFactorUP" ->
                                    RMul(basic, cols.scaleFactorUP)
                              [] var = "scaleFactorDOWN" ->
                                    RMul(basic, cols.scaleFactorDOWN)
                              [] OTHER -> RMul(basic, cols.scaleFactor)
        /\ \A k \in McDatasets :
              /\ TotalWeight(all_histograms.MC, k, "m4lUP")
                    = TotalWeight(all_histograms.MC, k, "nominal")
              /\ TotalWeight(all_histograms.MC, k, "m4lDOWN")
                    = TotalWeight(all_histograms.MC, k, "nominal")

\* an event that m4lUP moves into the overflow bin and one that m4lDOWN
\* moves into the underflow bin, with up and nominal weights that differ
C10_Witness ==
    /\ Returned
    /\ \E k \in McDatasets :
          /\ \E f \in BagToSet(Cell(all_histograms.MC, <<34, k, "m4lUP">>).entries) :
                \E g \in BagToSet(Cell(all_histograms.MC, <<33, k, "nominal">>).entries) :
                    f.id = g.id
          /\ TotalWeight(all_histograms.MC, k, "scaleFactorUP")
                # TotalWeight(all_histograms.MC, k, "nominal")
    /\ \E k \in McDatasets :
          \E f \in BagToSet(Cell(all_histograms.MC, <<-1, k, "m4lDOWN">>).entries) :
              \E g \in BagToSet(Cell(all_histograms.MC, <<0, k, "nominal">>).entries) :
                  f.id = g.id

----------------------------------------------------------------------------
(* Claims about failing streams and the shared processor                   *)

\* the message for each datasource, written out
ExpectedFailureMessage ==
    [k \in DatasetNames |->
        CASE k = "Data" -> "Failure while processing Data"
          [] k = z_ttbar ->
                "Failure while processing Background $Z,t\\bar{t}$"
          [] k = zzstar ->
                "Failure while processing Background $ZZ^{\\star}$"
          [] k = signal ->
                "Failure while processing Signal ($m_H$ = 125 GeV)"]

FailedStreams == {k \in DatasetNames : tpc[k] = "failed"}

\* C11: once the stream of a datasource has raised, produce_all_histograms
\* can only raise: it never returns and no histograms exist, whatever the
\* other datasources delivered.  When the error of the stream that failed
\* first is an instance of Exception, what is raised is an Exception with
\* the message "Failure while processing <dataset category>" of that
\* datasource and the stream's error as its cause (an error that is only a
\* BaseException passes the except clause and is raised as it is).
C11_FailureRaised ==
    /\ FailedStreams = {} => exc = None /\ failure = None /\ pc # "raised"
    /\ FailedStreams # {} =>
          /\ pc \in {"gather", "raised"}
          /\ all_histograms = None
          /\ rootfile = None
          /\ pc = "gather" => ENABLED GatherRaise /\ ~ENABLED GatherReturn
          /\ failure.stream \in FailedStreams
          /\ IF failure.error.class = "RuntimeError"
             THEN exc = [class |-> "Exception",
                         message |-> ExpectedFailureMessage[failure.stream],
                         cause |-> failure.error]
             ELSE exc = failure.error

\* produce_all_histograms has raised for the failure of the ZZ stream, after
\* the Data stream had returned its histograms; the signal stream failed too
C11_Witness ==
    /\ pc = "raised"
    /\ failure.stream = zzstar
    /\ failure.error.class = "RuntimeError"
    /\ exc.message = "Failure while processing Background $ZZ^{\\star}$"
    /\ tpc["Data"] = "done"
    /\ Fills(coffea_info["Data"].data) # {}
    /\ tpc[signal] = "failed"

\* the files the stream of datasource k has delivered so far
NumDelivered(k) == Len(fileset[k]) - Len(pending[k])

\* the item the stream of datasource k yields after its first count files
\* (count >= 1) when no other datasource is processed: process on each
\* file, summed
AloneItem(k, count) ==
    LET part(i) == process(get_lepton_query(Delivery(k, i)),
                           [dataset_category |-> k,
                            filename |-> fileset[k][i]])
        sum[i \in 1..count] ==
            IF i = 1 THEN part(1) ELSE accumulate(sum[i - 1], part(i))
    IN  sum[count]

\* whether two processor outputs have the same bins (a bin that a
\* histogram does not list is empty)
SameHistograms(a, b) ==
    /\ \A bin \in DOMAIN a.data \cup DOMAIN b.data :
          Cell(a.data, bin) = Cell(b.data, bin)
    /\ \A key \in DOMAIN a.MC \cup DOMAIN b.MC :
          Cell(a.MC, key) = Cell(b.MC, key)

\* C12: the one HZZAnalysis instance that all tasks share never holds an
\* attribute, and in every state of every interleaving the last item of
\* the stream of each datasource holds fills of the delivered files of that
\* datasource only and equals, bin by bin, the item the datasource yields
\* for these files when it is processed alone.
C12_NoSharedHistograms ==
    /\ DOMAIN analysis_processor = {}
    /\ \A k \in DatasetNames :
          /\ coffea_info[k] = None <=> NumDelivered(k) = 0
          /\ coffea_info[k] # None =>
                /\ \A f \in Fills(coffea_info[k].data) \cup Fills(coffea_info[k].MC) :
                      f.id[1] = k /\ f.id[2] \in 1..NumDelivered(k)
                /\ \A alone \in {AloneItem(k, NumDelivered(k))} :
                      SameHistograms(coffea_info[k], alone)

\* two streams are each between two of their files, with fills from the
\* calls made so far, after calls for a third datasource
C12_Witness ==
    /\ pc = "gather"
    /\ NumDelivered("Data") = 2
    /\ NumDelivered(signal) = 2
    /\ NumDelivered(zzstar) = 1
    /\ Fills(coffea_info["Data"].data) # {}
    /\ Fills(coffea_info[signal].MC) # {}
    /\ Fills(coffea_info[zzstar].MC) # {}

====
